---- MODULE Spec2Model ----
(***************************************************************************)
(* telegram-to-cloud (src/run.py): a chat bot whose conversation handler   *)
(* lets a user pick a storage service and then relays file attachments to  *)
(* it.  The model holds the dispatcher's conversation table, the per-user  *)
(* user_data dictionary, the local download directory and the position of  *)
(* the handler that the single dispatcher thread is running.               *)
(***************************************************************************)
EXTENDS Integers, Sequences, FiniteSets, TLC

\* ------------------------------------------------------------------ bounds
NumFiles == 2

\* The user ids that send updates: 10 and 11 (an allow-list names some,
\* none or all of them).
Users == {10, 11}
FileIds == 1..NumFiles

\* ------------------------------------------------------- program constants
UPLOAD_TO == 0
UPLOAD_FILE == 1
\* ConversationHandler.END, returned by cancel; also stands for "no
\* conversation" (the dispatcher deletes the user's key on END).
END == -1
\* A handler that ends with a bare "return" hands None to the dispatcher.
ReturnsNone == -2

Labels == {"S3", "GDrive"}
None == "None"

MenuText == "Choose a storage service."
NotAuthorizedText == "is not authorized."
ReadyText == "I'm ready to receive files."
ReceivedText == "File received."
UploadedText == "File uploaded."
PhotoWarningText == "Photo not stored."
UnsupportedText == "Unsupported file type."
FarewellText == "Finished. Reply /start to start again."
ErrorText == "I encountered an error."

\* int(): the value of a decimal literal, ValueError for anything else.
IntLiterals == {"10", "11", "12"}
int(s) == CASE s = "10" -> 10 [] s = "11" -> 11 [] s = "12" -> 12

\* What APPROVED_USERS can hold once the module is loaded: never assigned,
\* or a list of ids (of the users above or of others).
AllowLists == [defined : {TRUE}, ids : SUBSET {int(s) : s \in IntLiterals}]
Configs == {[defined |-> FALSE, ids |-> {}]} \cup AllowLists

\* os.getenv("APPROVED_USER_IDS"): unset (None), or a string, held here as
\* the entries between its commas; the empty string, which is tested for
\* truth before it is split, is the one with no entries.
Unset == [set |-> FALSE, entries |-> <<>>]
Environments ==
  {Unset} \cup
  [set : {TRUE},
   entries : {<<>>, <<"10">>, <<"11">>, <<"10", "11">>, <<"12">>,
              <<"x">>, <<"10", "x">>}]

\* lines 26-31: a truthy setting is split and every entry converted, an
\* entry that is no integer raising ValueError out of the module; None and
\* the empty string take the else branch, which assigns nothing.
load_allow_list(env) ==
  IF ~env.set \/ env.entries = <<>>
    THEN [raises |-> FALSE, value |-> [defined |-> FALSE, ids |-> {}]]
  ELSE IF \E i \in DOMAIN env.entries : env.entries[i] \notin IntLiterals
    THEN [raises |-> TRUE, value |-> [defined |-> FALSE, ids |-> {}]]
  ELSE [raises |-> FALSE,
        value |-> [defined |-> TRUE,
                   ids |-> {int(env.entries[i]) : i \in DOMAIN env.entries}]]

\* ----------------------------------------------------------------- inputs
Commands == {[kind |-> "command", text |-> c, document |-> "none",
              video |-> FALSE, photo |-> FALSE] : c \in {"/start", "/cancel"}}
Texts == {[kind |-> "text", text |-> t, document |-> "none",
           video |-> FALSE, photo |-> FALSE] : t \in Labels \cup {"hello"}}
\* document: "image" is a document whose mime type is image/*, "other" any
\* other document (report.pdf); all three absent is some other message kind.
\* The file a document or video handle refers to is drawn when it is fetched.
Attachments == [kind : {"attachment"}, text : {""}, document : {"none", "image", "other"},
                video : BOOLEAN, photo : BOOLEAN]
Messages == Commands \cup Texts \cup Attachments

VARIABLES
  APPROVED_USER_IDS,    \* the environment setting read at line 26
  APPROVED_USERS,       \* the module-level allow-list (lines 26-31)
  conversations,        \* ConversationHandler: user id -> state, no key = no conversation
  user_data,            \* context.user_data: user id -> the "uploader" bound for the user
  disk,                 \* local paths that hold a downloaded file
  pc,                   \* where the dispatcher thread is inside upload_file()
  upd,                  \* the update taken last and how its handling ended
  downloaded_filename,  \* upload_file()'s local of that name (0: unset)
  log,                  \* replies and backend calls made for upd, in order
  chosen                \* per user, the label of the latest backend-choice event

vars == <<APPROVED_USER_IDS, APPROVED_USERS, conversations, user_data, disk, pc, upd,
          downloaded_filename, log, chosen>>

\* ------------------------------------------------------------- dictionaries
StateOf(u) == IF u \in DOMAIN conversations THEN conversations[u] ELSE END
DataOf(u) == IF u \in DOMAIN user_data THEN user_data[u] ELSE None
SetKey(f, k, v) == [x \in DOMAIN f \cup {k} |-> IF x = k THEN v ELSE f[x]]
DelKey(f, k) == [x \in DOMAIN f \ {k} |-> f[x]]

\* ConversationHandler.update_state: END deletes the key, None (a handler
\* that returns nothing) leaves the table alone, any other value is stored.
update_state(convs, u, new_state) ==
  IF new_state = END THEN DelKey(convs, u)
  ELSE IF new_state = ReturnsNone THEN convs
  ELSE SetKey(convs, u, new_state)

\* ------------------------------------------------------ filters and routing
\* CommandHandler('start', start) and CommandHandler('cancel', cancel).
IsCommand(msg, c) == msg.kind = "command" /\ msg.text = c

\* Filters.regex('^(S3|GDrive)$')
RegexFilter(msg) == msg.kind = "text" /\ msg.text \in Labels

\* A filter that lets every document through.
AttachmentFilter_any_document(msg) == msg.document # "none" \/ msg.video \/ msg.photo

\* Filters.document.image | Filters.video | Filters.photo
AttachmentFilter(msg) == msg.document = "image" \/ msg.video \/ msg.photo

\* A registration that offers the backend choice in every state of a
\* conversation, not only in UPLOAD_TO.
check_update_choice_in_any_state(u, msg) ==
  IF StateOf(u) = END
    THEN (IF IsCommand(msg, "/start") THEN "start" ELSE "none")
  ELSE IF RegexFilter(msg) THEN "upload_to"
  ELSE IF StateOf(u) = UPLOAD_FILE /\ AttachmentFilter(msg) THEN "upload_file"
  ELSE IF IsCommand(msg, "/cancel") THEN "cancel"
  ELSE "none"

\* ConversationHandler.check_update for the handler built in main():
\* entry points are searched only when the user has no conversation
\* (allow_reentry is left at its default), then the handlers of the
\* current state, then the fallbacks.  "none": the update is dropped.
check_update(u, msg) ==
  IF StateOf(u) = END
    THEN (IF IsCommand(msg, "/start") THEN "start" ELSE "none")
  ELSE IF StateOf(u) = UPLOAD_TO /\ RegexFilter(msg) THEN "upload_to"
  ELSE IF StateOf(u) = UPLOAD_FILE /\ AttachmentFilter(msg) THEN "upload_file"
  ELSE IF IsCommand(msg, "/cancel") THEN "cancel"
  ELSE "none"

\* ------------------------------------------------------------ log entries
Reply(text) == [op |-> "reply", text |-> text, path |-> 0, ok |-> TRUE]
\* ok: the download created the local file (FALSE: it overwrote one).
DownloadCall(path, fresh) == [op |-> "download", text |-> "", path |-> path, ok |-> fresh]
UploadCall(backend, path, ok) == [op |-> "upload", text |-> backend, path |-> path, ok |-> ok]

\* file.download() stores the bytes under a name derived from the remote
\* file, in the working directory: the same file gives the same local path.
LocalPath(file) == file

\* ----------------------------------------------------------- handler bodies
\* start() without the membership test.
start_unchecked(u) ==
  IF ~APPROVED_USERS.defined
    THEN [raise |-> TRUE, reply |-> ErrorText, ret |-> ReturnsNone]
    ELSE [raise |-> FALSE, reply |-> MenuText, ret |-> UPLOAD_TO]

\* start(): the membership test reads the module-level APPROVED_USERS, which
\* exists only when APPROVED_USER_IDS was set (NameError otherwise).
start(u) ==
  IF ~APPROVED_USERS.defined
    THEN [raise |-> TRUE, reply |-> ErrorText, ret |-> ReturnsNone]
  ELSE IF u \in APPROVED_USERS.ids
    THEN [raise |-> FALSE, reply |-> MenuText, ret |-> UPLOAD_TO]
  ELSE [raise |-> FALSE, reply |-> NotAuthorizedText, ret |-> ReturnsNone]

\* cancel() that forgets to return ConversationHandler.END.
cancel_keep == [reply |-> FarewellText, ret |-> ReturnsNone]

\* cancel(), lines 117-119.
cancel == [reply |-> FarewellText, ret |-> END]

\* BackendFactory: a StorageBackend for a known label.
build_uploader(label) == label

\* A binding that keeps an uploader the user already has (setdefault).
bind_uploader_keep(data, u, label) ==
  IF u \in DOMAIN data THEN data ELSE SetKey(data, u, label)

\* A binding kept in one place for all users instead of per-user data.
bind_uploader_shared(data, u, label) ==
  [x \in DOMAIN data \cup {u} |-> build_uploader(label)]

\* An upload_to() that builds the uploader and does not store it.
bind_uploader_forget(data, u, label) == data

\* upload_to() line 62: context.user_data["uploader"] = build_uploader(...)
bind_uploader(data, u, label) == SetKey(data, u, build_uploader(label))

\* A chain that tests message.video before message.document.
classify_video_first(msg) ==
  IF msg.video THEN "Video"
  ELSE IF msg.document # "none" THEN "Document"
  ELSE IF msg.photo THEN "Photo"
  ELSE "Unsupported"

\* upload_file(): which branch of the if/elif chain a message takes.
classify(msg) ==
  IF msg.document # "none" THEN "Document"
  ELSE IF msg.video THEN "Video"
  ELSE IF msg.photo THEN "Photo"
  ELSE "Unsupported"

\* A chain that also fetches the file of an inline photo.
needs_download_photo(msg) == classify(msg) \in {"Document", "Video", "Photo"}

\* line 100, "if file:": only the document and video branches set file.
needs_download(msg) == classify(msg) \in {"Document", "Video"}

\* line 85: message.document["file_name"], the name the sender gave the file.
DocumentFileName == "document file_name"
\* line 88: a video message does not carry the original file name.
VideoPlaceholder == "Video file."

\* lines 83-89: the display name set by the branch that set file.
file_name_from_user(msg) ==
  IF classify(msg) = "Document" THEN DocumentFileName ELSE VideoPlaceholder

\* line 103: f'File received.\n{file_name_from_user}'
received_text(msg) == ReceivedText \o "\n" \o file_name_from_user(msg)

\* ---------------------------------------------------------------- dispatch
\* Before the first update: a message nothing is registered for.
NoMsg == [kind |-> "text", text |-> "hello", document |-> "none",
          video |-> FALSE, photo |-> FALSE]

\* The update the dispatcher took last: whose it is, the message, the
\* handler it was routed to, how the handler ended ("running", "done",
\* "ignored" or the exception raised), and the user's conversation state
\* and uploader when it arrived.
NewUpd(u, msg, handler, outcome) ==
  [user |-> u, msg |-> msg, handler |-> handler, outcome |-> outcome,
   prevState |-> StateOf(u), prevData |-> DataOf(u)]

Exceptions == {"NameError", "TelegramError", "BuildError", "KeyError"}

\* dp.add_error_handler(error): the dispatcher catches what a handler
\* raises, calls error() and does not touch the conversation table.
error(l) == Append(l, Reply(ErrorText))

\* A dispatcher whose handlers run on worker threads (run_async): it takes
\* the next update while a handler is still running.
dispatcher_free_async == pc # "exited"

\* main(), lines 129-148: the Updater's one dispatcher thread takes an update
\* from the queue and runs the matching handler itself (no handler is
\* registered to run asynchronously), so the next update is taken only when
\* the handler has returned or raised.
dispatcher_free == pc = "idle"

Init ==
  /\ APPROVED_USER_IDS \in Environments
  /\ APPROVED_USERS = load_allow_list(APPROVED_USER_IDS).value
  /\ conversations = <<>>
  /\ user_data = <<>>
  /\ disk = {}
  /\ pc = IF load_allow_list(APPROVED_USER_IDS).raises THEN "exited" ELSE "idle"
  /\ upd = [user |-> 10, msg |-> NoMsg, handler |-> "none", outcome |-> "ignored",
            prevState |-> END, prevData |-> None]
  /\ downloaded_filename = 0
  /\ log = <<>>
  /\ chosen = [u \in Users |-> None]

\* An update no handler of the conversation matches.
Ignore(u, msg) ==
  /\ dispatcher_free
  /\ check_update(u, msg) = "none"
  /\ upd' = NewUpd(u, msg, "none", "ignored")
  /\ log' = <<>>
  /\ UNCHANGED <<APPROVED_USER_IDS, APPROVED_USERS, conversations, user_data, disk, pc,
                 downloaded_filename, chosen>>

\* start(), lines 40-55.  fault: reply_text raises.
Start(u, msg, fault) ==
  /\ dispatcher_free
  /\ check_update(u, msg) = "start"
  /\ LET r == start(u) IN
       IF r.raise \/ fault
         THEN /\ upd' = NewUpd(u, msg, "start",
                               IF r.raise THEN "NameError" ELSE "TelegramError")
              /\ log' = error(<<>>)
              /\ UNCHANGED conversations
         ELSE /\ upd' = NewUpd(u, msg, "start", "done")
              /\ log' = <<Reply(r.reply)>>
              /\ conversations' = update_state(conversations, u, r.ret)
  /\ UNCHANGED <<APPROVED_USER_IDS, APPROVED_USERS, user_data, disk, pc, downloaded_filename, chosen>>

\* upload_to(): the uploader is stored in user_data before the reply is sent.
\* fault "build": build_uploader raises; "reply": reply_text raises.
UploadTo(u, msg, fault) ==
  /\ dispatcher_free
  /\ check_update(u, msg) = "upload_to"
  /\ chosen' = [chosen EXCEPT ![u] = msg.text]
  /\ IF fault = "build"
       THEN /\ upd' = NewUpd(u, msg, "upload_to", "BuildError")
            /\ log' = error(<<>>)
            /\ UNCHANGED <<conversations, user_data>>
     ELSE IF fault = "reply"
       THEN /\ upd' = NewUpd(u, msg, "upload_to", "TelegramError")
            /\ log' = error(<<>>)
            /\ user_data' = bind_uploader(user_data, u, msg.text)
            /\ UNCHANGED conversations
     ELSE /\ upd' = NewUpd(u, msg, "upload_to", "done")
          /\ log' = <<Reply(ReadyText)>>
          /\ user_data' = bind_uploader(user_data, u, msg.text)
          /\ conversations' = update_state(conversations, u, UPLOAD_FILE)
  /\ UNCHANGED <<APPROVED_USER_IDS, APPROVED_USERS, disk, pc, downloaded_filename>>

\* cancel(), lines 113-119.  fault: reply_text raises.
Cancel(u, msg, fault) ==
  /\ dispatcher_free
  /\ check_update(u, msg) = "cancel"
  /\ IF fault
       THEN /\ upd' = NewUpd(u, msg, "cancel", "TelegramError")
            /\ log' = error(<<>>)
            /\ UNCHANGED conversations
       ELSE /\ upd' = NewUpd(u, msg, "cancel", "done")
            /\ log' = <<Reply(cancel.reply)>>
            /\ conversations' = update_state(conversations, u, cancel.ret)
  /\ UNCHANGED <<APPROVED_USER_IDS, APPROVED_USERS, user_data, disk, pc, downloaded_filename, chosen>>

\* upload_file() lines 82-98: the if/elif chain.  A document or a video
\* leaves a file to download; a photo and anything else are answered at once.
UploadFileBegin(u, msg, fault) ==
  /\ dispatcher_free
  /\ check_update(u, msg) = "upload_file"
  /\ IF needs_download(msg)
       THEN /\ upd' = NewUpd(u, msg, "upload_file", "running")
            /\ log' = <<>>
            /\ pc' = "download"
            /\ UNCHANGED conversations
     ELSE IF fault
       THEN /\ upd' = NewUpd(u, msg, "upload_file", "TelegramError")
            /\ log' = error(<<>>)
            /\ UNCHANGED <<conversations, pc>>
     ELSE /\ upd' = NewUpd(u, msg, "upload_file", "done")
          /\ log' = <<Reply(IF classify(msg) = "Photo" THEN PhotoWarningText
                                                       ELSE UnsupportedText)>>
          /\ conversations' = update_state(conversations, u, UPLOAD_FILE)
          /\ UNCHANGED pc
  /\ UNCHANGED <<APPROVED_USER_IDS, APPROVED_USERS, user_data, disk, downloaded_filename, chosen>>

\* The handler in flight raised: the dispatcher calls error() and goes on
\* with the next update; nothing of upload_file() runs after the raise.
Raise(exception) ==
  /\ pc' = "idle"
  /\ upd' = [upd EXCEPT !.outcome = exception]
  /\ log' = error(log)
  /\ downloaded_filename' = 0
  /\ UNCHANGED <<APPROVED_USER_IDS, APPROVED_USERS, conversations, user_data, disk, chosen>>

\* lines 86/89 and 101: get_file() and file.download().
Download(file, fault) ==
  /\ pc = "download"
  /\ IF fault
       THEN Raise("TelegramError")
       ELSE /\ downloaded_filename' = LocalPath(file)
            /\ disk' = disk \cup {LocalPath(file)}
            /\ log' = Append(log, DownloadCall(LocalPath(file), LocalPath(file) \notin disk))
            /\ pc' = "reply_received"
            /\ UNCHANGED <<APPROVED_USER_IDS, APPROVED_USERS, conversations, user_data, upd, chosen>>

\* line 103: reply "File received."
ReplyReceived(fault) ==
  /\ pc = "reply_received"
  /\ IF fault
       THEN Raise("TelegramError")
       ELSE /\ log' = Append(log, Reply(received_text(upd.msg)))
            /\ pc' = "upload"
            /\ UNCHANGED <<APPROVED_USER_IDS, APPROVED_USERS, conversations, user_data, disk, upd,
                           downloaded_filename, chosen>>

\* StorageBackend.upload: true on a confirmed remote write, false on a
\* failure the backend reports; the local file is the caller's.
upload_results == BOOLEAN

\* An upload that is skipped when the local file was already there.
upload_calls_dedup(uploader, path, ok) ==
  IF log[1].ok THEN <<UploadCall(uploader, path, ok)>> ELSE <<>>

\* A handler that confirms before it uploads.
upload_calls_early_confirm(uploader, path, ok) ==
  <<Reply(UploadedText), UploadCall(uploader, path, ok)>>

\* lines 105-106: the uploader stored in user_data is called once with the
\* downloaded path.
upload_calls(uploader, path, ok) == <<UploadCall(uploader, path, ok)>>

\* A handler that confirms whatever the uploader returned.
confirms_always(upload) == TRUE

\* line 107, "if upload:": only a true result is confirmed.
confirms(upload) == upload

\* lines 105-110: a missing "uploader" key is a KeyError; a false result
\* returns UPLOAD_FILE at once, a true one goes on to the reply.
Upload(ok) ==
  /\ pc = "upload"
  /\ IF upd.user \notin DOMAIN user_data
       THEN Raise("KeyError")
       ELSE /\ log' = log \o upload_calls(user_data[upd.user], downloaded_filename, ok)
            /\ IF confirms(ok)
                 THEN /\ pc' = "reply_uploaded"
                      /\ UNCHANGED <<conversations, upd, downloaded_filename>>
                 ELSE /\ pc' = "idle"
                      /\ upd' = [upd EXCEPT !.outcome = "done"]
                      /\ conversations' = update_state(conversations, upd.user, UPLOAD_FILE)
                      /\ downloaded_filename' = 0
            /\ UNCHANGED <<APPROVED_USER_IDS, APPROVED_USERS, user_data, disk, chosen>>

\* line 108: reply "File uploaded.", then return UPLOAD_FILE (line 110).
ReplyUploaded(fault) ==
  /\ pc = "reply_uploaded"
  /\ IF fault
       THEN Raise("TelegramError")
       ELSE /\ log' = Append(log, Reply(UploadedText))
            /\ pc' = "idle"
            /\ upd' = [upd EXCEPT !.outcome = "done"]
            /\ conversations' = update_state(conversations, upd.user, UPLOAD_FILE)
            /\ downloaded_filename' = 0
            /\ UNCHANGED <<APPROVED_USER_IDS, APPROVED_USERS, user_data, disk, chosen>>

Next ==
  \/ \E u \in Users, msg \in Messages : Ignore(u, msg)
  \/ \E u \in Users, msg \in Messages, fault \in BOOLEAN : Start(u, msg, fault)
  \/ \E u \in Users, msg \in Messages, fault \in {"none", "build", "reply"} :
        UploadTo(u, msg, fault)
  \/ \E u \in Users, msg \in Messages, fault \in BOOLEAN : Cancel(u, msg, fault)
  \/ \E u \in Users, msg \in Messages, fault \in BOOLEAN : UploadFileBegin(u, msg, fault)
  \/ \E file \in FileIds, fault \in BOOLEAN : Download(file, fault)
  \/ \E fault \in BOOLEAN : ReplyReceived(fault)
  \/ \E ok \in upload_results : Upload(ok)
  \/ \E fault \in BOOLEAN : ReplyUploaded(fault)

Spec == Init /\ [][Next]_vars

TypeOK ==
  /\ APPROVED_USER_IDS \in Environments
  /\ APPROVED_USERS \in Configs
  /\ DOMAIN conversations \subseteq Users
  /\ \A u \in DOMAIN conversations : conversations[u] \in {UPLOAD_TO, UPLOAD_FILE}
  /\ DOMAIN user_data \subseteq Users
  /\ \A u \in DOMAIN user_data : user_data[u] \in Labels
  /\ disk \subseteq {LocalPath(f) : f \in FileIds}
  /\ pc \in {"idle", "exited", "download", "reply_received", "upload", "reply_uploaded"}
  /\ upd.user \in Users /\ upd.msg \in Messages
  /\ upd.outcome \in {"running", "done", "ignored"} \cup Exceptions

\* ------------------------------------------------------------------ claims
Authorized(u) == APPROVED_USERS.defined /\ u \in APPROVED_USERS.ids
Count(l, op) == Cardinality({i \in DOMAIN l : l[i].op = op})
PhotoOnly(msg) ==
  msg.kind = "attachment" /\ msg.document = "none" /\ ~msg.video /\ msg.photo
\* What a document or video handler that returned has sent and called: the
\* download, "File received.", one upload on the user's uploader with the
\* downloaded path and, when the upload succeeded, "File uploaded."
RelayLogs(u) ==
  {<<DownloadCall(LocalPath(f), fresh), Reply(received_text(upd.msg)),
     UploadCall(DataOf(u), LocalPath(f), ok)>>
     \o (IF ok THEN <<Reply(UploadedText)>> ELSE <<>>) :
     f \in FileIds, fresh \in BOOLEAN, ok \in BOOLEAN}

\* C1: with an allow-list configured, a user who is not on it never has a
\* conversation and never has an uploader bound, and a /start of such a user
\* is answered "... is not authorized." (or, when sending that reply fails,
\* by the error handler).
C1_UnauthorizedStartStaysOut ==
  APPROVED_USERS.defined =>
    \A u \in Users \ APPROVED_USERS.ids :
      /\ StateOf(u) = END
      /\ u \notin DOMAIN user_data
      /\ (upd.user = u /\ upd.msg.text = "/start") =>
           /\ upd.handler = "start"
           /\ upd.outcome \in {"done", "TelegramError"}
           /\ upd.outcome = "done" => log = <<Reply(NotAuthorizedText)>>
           /\ upd.outcome = "TelegramError" => log = <<Reply(ErrorText)>>

\* An unauthorized user's /start was answered while another user has a
\* conversation going.
C1_Witness ==
  /\ APPROVED_USERS.defined
  /\ upd.user \notin APPROVED_USERS.ids
  /\ upd.handler = "start" /\ upd.outcome = "done"
  /\ log = <<Reply(NotAuthorizedText)>>
  /\ \E v \in Users : StateOf(v) = UPLOAD_FILE

\* C2: with no allow-list configured, a /start of a user without a
\* conversation is answered with the backend menu and puts the user in
\* UPLOAD_TO (unless sending the reply itself fails).
C2_OpenModeStartOpensSession ==
  (~APPROVED_USERS.defined /\ upd.handler = "start" /\ upd.outcome # "TelegramError") =>
    /\ log = <<Reply(MenuText)>>
    /\ StateOf(upd.user) = UPLOAD_TO

\* C3: a /start of an authorized user who has a conversation leaves the user
\* in UPLOAD_TO with no uploader bound.
C3_RestartReplacesSession ==
  (/\ pc = "idle"
   /\ upd.msg.text = "/start"
   /\ Authorized(upd.user)
   /\ upd.prevState # END
   /\ upd.outcome # "TelegramError") =>
    /\ StateOf(upd.user) = UPLOAD_TO
    /\ upd.user \notin DOMAIN user_data

C5_InlinePhotoNeverUploaded ==
  (upd.prevState = UPLOAD_FILE /\ PhotoOnly(upd.msg)) =>
    /\ upd.handler = "upload_file"
    /\ pc = "idle"
    /\ Count(log, "download") = 0 /\ Count(log, "upload") = 0
    /\ upd.outcome \in {"done", "TelegramError"}
    /\ upd.outcome = "done" => log = <<Reply(PhotoWarningText)>>
    /\ StateOf(upd.user) = UPLOAD_FILE

\* An inline photo was answered with the warning and nothing was downloaded.
C5_Witness ==
  /\ upd.handler = "upload_file" /\ PhotoOnly(upd.msg)
  /\ upd.outcome = "done"
  /\ log = <<Reply(PhotoWarningText)>>
  /\ disk = {}

C7_TempFilesRemoved == pc = "idle" => disk = {}

\* C8 as claimed: every document sent in UPLOAD_FILE, whatever its content
\* type, is routed to upload_file and, when the upload succeeds, confirmed.
C8_EveryDocumentUploaded ==
  (upd.prevState = UPLOAD_FILE /\ upd.msg.document # "none") =>
    /\ upd.handler = "upload_file"
    /\ upd.outcome = "done" => log \in RelayLogs(upd.user)

\* C8 amended: a document whose content type is an image, sent in
\* UPLOAD_FILE, is routed to upload_file, downloaded, uploaded and, on
\* success, confirmed; a document of another type sent on its own matches no
\* handler: no download, no upload, no reply.
C8_ImageDocumentUploaded ==
  upd.prevState = UPLOAD_FILE =>
    /\ upd.msg.document = "image" =>
         /\ upd.handler = "upload_file"
         /\ classify(upd.msg) = "Document"
         /\ upd.outcome = "done" => log \in RelayLogs(upd.user)
    /\ (upd.msg.document = "other" /\ ~upd.msg.video /\ ~upd.msg.photo) =>
         /\ upd.handler = "none"
         /\ pc = "idle" /\ log = <<>>

\* An image sent as a document was relayed and confirmed.
C8_Witness ==
  /\ upd.prevState = UPLOAD_FILE
  /\ upd.msg.document = "image" /\ ~upd.msg.video /\ ~upd.msg.photo
  /\ upd.outcome = "done"
  /\ Len(log) = 4 /\ log[3].ok /\ log[4] = Reply(UploadedText)

\* C9: a /cancel sent in UPLOAD_TO or UPLOAD_FILE is routed to cancel, which
\* says farewell and deletes the conversation; an attachment of a user
\* without a conversation matches no handler; downloads and uploads happen
\* only for a user in UPLOAD_FILE, and a user gets there only from UPLOAD_TO
\* through upload_to, and out of the no-conversation state only through an
\* authorized start.
C9_State ==
  /\ (upd.msg.text = "/cancel" /\ upd.prevState # END) =>
       /\ upd.handler = "cancel"
       /\ upd.outcome \in {"done", "TelegramError"}
       /\ upd.outcome = "done" =>
            log = <<Reply(FarewellText)>> /\ StateOf(upd.user) = END
  /\ (upd.msg.kind = "attachment" /\ upd.prevState = END) =>
       upd.handler = "none" /\ pc = "idle" /\ log = <<>>
  /\ (pc \notin {"idle", "exited"} \/ Count(log, "download") + Count(log, "upload") > 0) =>
       upd.prevState = UPLOAD_FILE /\ StateOf(upd.user) = UPLOAD_FILE

C9_Step ==
  \A u \in Users :
    /\ (StateOf(u) # UPLOAD_FILE /\ StateOf(u)' = UPLOAD_FILE) =>
         StateOf(u) = UPLOAD_TO /\ upd'.user = u /\ upd'.handler = "upload_to"
    /\ (StateOf(u) = END /\ StateOf(u)' # END) =>
         /\ StateOf(u)' = UPLOAD_TO
         /\ upd'.user = u /\ upd'.handler = "start" /\ Authorized(u)

\* C9: after a /cancel the user has no conversation, and no attachment of
\* that user is downloaded or uploaded until an authorized /start and a
\* backend choice have put the user back in UPLOAD_FILE (C9_State in every
\* state, C9_Step on every step).
C9_CancelEndsSession == [](C9_State) /\ [][C9_Step]_vars

\* After a /cancel in UPLOAD_FILE the user, still holding the old uploader,
\* sent a document: nothing was done with it.
C9_Witness ==
  /\ upd.msg.kind = "attachment" /\ upd.msg.document = "image"
  /\ upd.prevState = END /\ upd.handler = "none"
  /\ upd.user \in DOMAIN user_data
  /\ log = <<>>

\* C10: when a handler raised, the user's conversation state and uploader
\* are what they were when the update arrived, and the error handler's reply
\* was sent.
C10_FaultLeavesSessionUnchanged ==
  (pc = "idle" /\ upd.outcome \in Exceptions) =>
    /\ StateOf(upd.user) = upd.prevState
    /\ DataOf(upd.user) = upd.prevData
    /\ log # <<>> /\ log[Len(log)] = Reply(ErrorText)

\* C11: when the uploader returned false for a document or video, no "File
\* uploaded." reply is sent for it, the handler has returned with the user
\* still in UPLOAD_FILE and bound to the same uploader, and the same message
\* sent again is routed to upload_file once more.
C11_FailedUploadNotConfirmed ==
  (upd.handler = "upload_file" /\ \E i \in DOMAIN log : log[i].op = "upload" /\ ~log[i].ok) =>
    /\ \A i \in DOMAIN log : log[i] # Reply(UploadedText)
    /\ pc = "idle" /\ upd.outcome = "done"
    /\ StateOf(upd.user) = UPLOAD_FILE
    /\ DataOf(upd.user) = upd.prevData
    /\ check_update(upd.user, upd.msg) = "upload_file"

\* A file whose local copy was already there was sent again and its upload
\* was attempted again, and failed.
C11_Witness ==
  /\ upd.handler = "upload_file" /\ upd.outcome = "done"
  /\ Len(log) = 3
  /\ log[1].op = "download" /\ ~log[1].ok
  /\ log[3].op = "upload" /\ ~log[3].ok

\* The dispatcher can take an update of user u now.
TakesUpdateOf(u) ==
  \E msg \in Messages :
    \/ Ignore(u, msg)
    \/ \E fault \in BOOLEAN : Start(u, msg, fault)
    \/ \E fault \in {"none", "build", "reply"} : UploadTo(u, msg, fault)
    \/ \E fault \in BOOLEAN : Cancel(u, msg, fault)
    \/ \E fault \in BOOLEAN : UploadFileBegin(u, msg, fault)

\* C12: while the download or the upload of one user's file has not
\* returned, an update of another user can still be taken and handled.
C12_StallDoesNotBlockOthers ==
  pc \in {"download", "upload"} =>
    \A v \in Users \ {upd.user} : ENABLED TakesUpdateOf(v)

\* C13: a step taken for one user's update, also one that ends in an
\* exception, changes no other user's conversation state or uploader; after
\* an exception the dispatcher is free to take any user's next update; and
\* an upload is made on the uploader of the user who sent the file.
C13_State ==
  /\ upd.outcome \in Exceptions =>
       /\ dispatcher_free
       /\ \A v \in Users : ENABLED TakesUpdateOf(v)
  /\ \A i \in DOMAIN log :
       log[i].op = "upload" => log[i].text = DataOf(upd.user)

C13_Step ==
  \A v \in Users \ {upd'.user} :
    StateOf(v)' = StateOf(v) /\ DataOf(v)' = DataOf(v)

\* C13 (C13_State in every state, C13_Step on every step).
C13_OtherUsersUntouched == [](C13_State) /\ [][C13_Step]_vars

\* One user's backend choice ended in an exception after binding its
\* uploader, while another user is in UPLOAD_FILE bound to a different one.
C13_Witness ==
  /\ upd.handler = "upload_to" /\ upd.outcome \in Exceptions
  /\ upd.user \in DOMAIN user_data
  /\ \E v \in Users \ {upd.user} :
       /\ StateOf(v) = UPLOAD_FILE
       /\ DataOf(v) \in Labels \ {DataOf(upd.user)}

\* C14: after a /cancel no uploader is bound to the user, and a conversation
\* begun by a later /start begins with none bound.
C14_CancelUnbindsBackend ==
  /\ (upd.handler = "cancel" /\ upd.outcome = "done") =>
       upd.user \notin DOMAIN user_data
  /\ (upd.handler = "start" /\ upd.outcome = "done") =>
       upd.user \notin DOMAIN user_data

\* The payload test of C15 written out on the fields of the message.
C15_Handled ==
  /\ conversations[upd.user] = UPLOAD_FILE
  /\ IF upd.msg.document # "none"
       THEN /\ Len(log) >= 3 /\ log[1].op = "download" /\ log[3].op = "upload"
            /\ log[2] = Reply(ReceivedText \o "\n" \o DocumentFileName)
     ELSE IF upd.msg.video
       THEN /\ Len(log) >= 3 /\ log[1].op = "download" /\ log[3].op = "upload"
            /\ log[2] = Reply(ReceivedText \o "\n" \o VideoPlaceholder)
     ELSE IF upd.msg.photo
       THEN log = <<Reply(PhotoWarningText)>>
     ELSE /\ log = <<Reply(UnsupportedText)>>

\* C15 as stated: an attachment event that arrives in UPLOAD_FILE and is
\* not cut short by an exception is handled by precedence document > video >
\* photo > none, a message with none of the three being answered
\* "Unsupported file type." with the state kept.
C15_ClassifiedByPrecedence ==
  (upd.msg.kind = "attachment" /\ upd.prevState = UPLOAD_FILE
     /\ upd.outcome \in {"done", "ignored"}) => C15_Handled

\* C15 amended: an attachment event routed to upload_file() that returns
\* is handled by precedence document > video > photo; the filter registered
\* for UPLOAD_FILE never routes a message with none of the three (nor a
\* document that is not an image, with no video or photo), which gets no
\* reply, no upload and leaves the state UPLOAD_FILE.
C15_RoutedClassifiedByPrecedence ==
  /\ (upd.handler = "upload_file" /\ upd.outcome = "done") =>
       /\ C15_Handled
       /\ upd.msg.document # "none" \/ upd.msg.video \/ upd.msg.photo
  /\ (upd.msg.kind = "attachment" /\ upd.prevState = UPLOAD_FILE
        /\ upd.msg.document \in {"none", "other"}
        /\ ~upd.msg.video /\ ~upd.msg.photo) =>
       /\ upd.outcome = "ignored" /\ log = <<>>
       /\ StateOf(upd.user) = UPLOAD_FILE
  /\ \A i \in DOMAIN log : log[i] # Reply(UnsupportedText)

\* A returned upload_file() for a message carrying a document, a video and
\* a photo at once.
C15_Witness ==
  /\ upd.handler = "upload_file" /\ upd.outcome = "done"
  /\ upd.msg.document = "image" /\ upd.msg.video /\ upd.msg.photo
  /\ Len(log) = 4

C16_State ==
  /\ (upd.prevState = UPLOAD_FILE /\ upd.msg.kind = "text") =>
       /\ upd.outcome = "ignored" /\ log = <<>>
       /\ StateOf(upd.user) = UPLOAD_FILE
       /\ DataOf(upd.user) = upd.prevData
  /\ upd.handler = "upload_file" =>
       /\ DataOf(upd.user) = upd.prevData
       /\ \A i \in DOMAIN log :
            log[i].op = "upload" => log[i].text = upd.prevData

C16_Step ==
  \A u \in Users :
    (StateOf(u) = UPLOAD_FILE /\ StateOf(u)' = UPLOAD_FILE) =>
      DataOf(u)' = DataOf(u)

\* C16: a step that leaves a user in UPLOAD_FILE leaves the uploader bound
\* to the user unchanged; a text sent in UPLOAD_FILE, a backend label
\* included, is dropped; and every upload of an attachment event goes to the
\* uploader that was bound when the event arrived.
C16_BackendSticky == [](C16_State) /\ [][C16_Step]_vars

\* A user bound to S3 sent the other label while in UPLOAD_FILE.
C16_Witness ==
  /\ upd.prevState = UPLOAD_FILE /\ upd.msg.text = "GDrive"
  /\ upd.prevData = "S3" /\ DataOf(upd.user) = "S3"
  /\ upd.outcome = "ignored"

C17_State ==
  pc \notin {"idle", "exited"} =>
    /\ upd.outcome = "running"
    /\ ~ENABLED TakesUpdateOf(upd.user)

C17_Step ==
  pc \notin {"idle", "exited"} =>
    /\ upd'.user = upd.user /\ upd'.msg = upd.msg
    /\ \A v \in Users \ {upd.user} :
         StateOf(v)' = StateOf(v) /\ DataOf(v)' = DataOf(v)
    /\ pc' \in (CASE pc = "download" -> {"reply_received", "idle"}
                  [] pc = "reply_received" -> {"upload", "idle"}
                  [] pc = "upload" -> {"reply_uploaded", "idle"}
                  [] pc = "reply_uploaded" -> {"idle"})

\* C17: while a handler is in flight (between its download and its return)
\* no update of the same user is taken; every step until it returns or
\* raises belongs to that same update, in the order download, reply, upload,
\* reply, and touches no other user's conversation state or uploader.
C17_OneHandlerAtATime == [](C17_State) /\ [][C17_Step]_vars

\* The handler is waiting in the upload call while its user is in
\* UPLOAD_FILE, where a further attachment of the user would match.
C17_Witness ==
  /\ pc = "upload" /\ StateOf(upd.user) = UPLOAD_FILE
  /\ \E msg \in Attachments : check_update(upd.user, msg) = "upload_file"

\* C18: when the allow-list setting is present but empty or has an entry
\* that is no integer, the process serves, and a /start of any user who has
\* no conversation is answered with the menu and opens one (unless sending
\* the reply itself fails).
C18_EmptyOrMalformedIsOpenMode ==
  (/\ APPROVED_USER_IDS.set
   /\ \/ APPROVED_USER_IDS.entries = <<>>
      \/ \E i \in DOMAIN APPROVED_USER_IDS.entries :
           APPROVED_USER_IDS.entries[i] \notin IntLiterals) =>
    /\ pc # "exited"
    /\ (upd.handler = "start" /\ upd.outcome # "TelegramError") =>
         /\ upd.outcome = "done"
         /\ log = <<Reply(MenuText)>>
         /\ StateOf(upd.user) = UPLOAD_TO

C19_State ==
  /\ \A u \in Users :
       StateOf(u) = UPLOAD_FILE => u \in DOMAIN user_data /\ user_data[u] \in Labels
  /\ upd.outcome # "KeyError"
  /\ (pc \in {"upload", "reply_uploaded"} \/ Count(log, "upload") > 0) =>
       /\ upd.handler = "upload_file"
       /\ upd.prevState = UPLOAD_FILE /\ StateOf(upd.user) = UPLOAD_FILE

C19_Step ==
  \A u \in Users :
    (StateOf(u) # UPLOAD_FILE /\ StateOf(u)' = UPLOAD_FILE) =>
      /\ upd'.user = u /\ upd'.handler = "upload_to" /\ upd'.outcome = "done"
      /\ StateOf(u) = UPLOAD_TO
      /\ u \in DOMAIN user_data' /\ user_data'[u] = upd'.msg.text

\* C19: an upload is called only for a user in UPLOAD_FILE; every user in
\* UPLOAD_FILE has an uploader in user_data, so upload_file() never raises
\* KeyError; and a user enters UPLOAD_FILE only by an upload_to() that built
\* the uploader, stored it and returned.
C19_UploaderBoundWhileReceiving == [](C19_State) /\ [][C19_Step]_vars

\* An upload was called for a user who was and is in UPLOAD_FILE.
C19_Witness ==
  /\ upd.handler = "upload_file" /\ upd.outcome = "done"
  /\ Count(log, "upload") = 1
  /\ upd.prevState = UPLOAD_FILE /\ upd.prevData \in Labels

\* C20: within one document or video event the download is the first call,
\* "File received." follows it directly, the upload follows that reply, and
\* "File uploaded." is sent at most once, directly after an upload that
\* returned true; each step of the handler starts from the calls before it.
C20_OrderWithinEvent ==
  upd.handler = "upload_file" =>
    /\ \A i \in DOMAIN log :
         /\ log[i].op = "download" => i = 1
         /\ log[i] = Reply(received_text(upd.msg)) =>
              i = 2 /\ log[1].op = "download"
         /\ log[i].op = "upload" =>
              i = 3 /\ log[2] = Reply(received_text(upd.msg))
         /\ log[i] = Reply(UploadedText) =>
              i = 4 /\ log[3].op = "upload" /\ log[3].ok
    /\ pc = "download" => log = <<>>
    /\ pc = "reply_received" => Len(log) = 1 /\ log[1].op = "download"
    /\ pc = "upload" => Len(log) = 2 /\ log[2].op = "reply"
    /\ pc = "reply_uploaded" => Len(log) = 3 /\ log[3].op = "upload" /\ log[3].ok

\* A video event went through all four steps.
C20_Witness ==
  /\ upd.handler = "upload_file" /\ upd.outcome = "done"
  /\ upd.msg.document = "none" /\ upd.msg.video
  /\ Len(log) = 4 /\ log[4] = Reply(UploadedText)

====
